---- MODULE Spec2Model ----
(***************************************************************************)
(* A model of shopify_insights_fastapi.py: the hero matcher, the policy    *)
(* resolver, the FAQ extractor, the product-feed normalizer and the        *)
(* /fetch handler that orchestrates them.                                  *)
(*                                                                         *)
(* Python strings are sequences of one-character strings, so that          *)
(* substring tests, lowercasing, prefix tests and replacement are          *)
(* computed rather than assumed.  Python's None, where a string is         *)
(* expected, is the one-element sequence None, whose element is not a      *)
(* character.  An Optional[int] is a sequence of length 0 (None) or 1.     *)
(***************************************************************************)
EXTENDS Integers, Sequences, FiniteSets, TLC

VARIABLES
    \* hero_product_matches
    product_cards, products, heroes, hpc,
    \* find_policy_links
    base_url, html_links, reachable, policies, probed, ppc,
    \* try_fetch_faqs
    soup, faqs, fpc,
    \* fetch_products_json
    feed, feed_result, jpc,
    \* fetch_insights
    payload, env, website_url, requested, r, parsed, response, persisted, runs, pc

heroVars == <<product_cards, products, heroes, hpc>>
policyVars == <<base_url, html_links, reachable, policies, probed, ppc>>
faqVars == <<soup, faqs, fpc>>
feedVars == <<feed, feed_result, jpc>>
fetchVars == <<payload, env, website_url, requested, r, parsed, response, persisted, runs, pc>>
vars == <<heroVars, policyVars, faqVars, feedVars, fetchVars>>

----------------------------------------------------------------------------
(* Strings *)

None == <<"None">>

LowerAlpha == <<"a","b","c","d","e","f","g","h","i","j","k","l","m","n","o","p","q","r","s","t","u","v","w","x","y","z">>
UpperAlpha == <<"A","B","C","D","E","F","G","H","I","J","K","L","M","N","O","P","Q","R","S","T","U","V","W","X","Y","Z">>
Digits == <<"0","1","2","3","4","5","6","7","8","9">>

Range(s) == {s[i] : i \in 1..Len(s)}

\* str.lower() on one character
LowerChar(c) ==
    IF c \in Range(UpperAlpha)
    THEN LowerAlpha[CHOOSE i \in 1..Len(UpperAlpha) : UpperAlpha[i] = c]
    ELSE c

\* str.lower()
Lower(s) == [i \in 1..Len(s) |-> LowerChar(s[i])]

\* s.startswith(prefix)
StartsWith(s, prefix) ==
    /\ Len(prefix) <= Len(s)
    /\ SubSeq(s, 1, Len(prefix)) = prefix

\* the sub occurs in s at offset i (0-based)
OccursAt(sub, s, i) ==
    /\ i + Len(sub) <= Len(s)
    /\ SubSeq(s, i + 1, i + Len(sub)) = sub

\* Python's `sub in s`
Contains(sub, s) == \E i \in 0..Len(s) : OccursAt(sub, s, i)

\* Python truthiness of an Optional[str]
Truthy(s) == s # None /\ s # <<>>

\* `x or ''`
OrEmpty(s) == IF Truthy(s) THEN s ELSE <<>>

\* s.rstrip('/')
RECURSIVE RStripSlash(_)
RStripSlash(s) ==
    IF s # <<>> /\ s[Len(s)] = "/" THEN RStripSlash(SubSeq(s, 1, Len(s) - 1)) ELSE s

\* s.replace(old, new): every non-overlapping occurrence, left to right; an
\* empty old matches before every character and at the end
RECURSIVE Replace(_, _, _)
Replace(s, old, new) ==
    IF old = <<>> THEN new \o (IF s = <<>> THEN <<>> ELSE <<s[1]>> \o Replace(Tail(s), old, new))
    ELSE IF s = <<>> THEN <<>>
    ELSE IF OccursAt(old, s, 0)
         THEN new \o Replace(SubSeq(s, Len(old) + 1, Len(s)), old, new)
         ELSE <<s[1]>> \o Replace(Tail(s), old, new)

\* s.strip(), for the whitespace character " "
RECURSIVE Strip(_)
Strip(s) ==
    IF s # <<>> /\ s[1] = " " THEN Strip(Tail(s))
    ELSE IF s # <<>> /\ s[Len(s)] = " " THEN Strip(SubSeq(s, 1, Len(s) - 1))
    ELSE s

\* str(n) for a non-negative int
RECURSIVE StrInt(_)
StrInt(n) == IF n < 10 THEN <<Digits[n + 1]>> ELSE StrInt(n \div 10) \o <<Digits[(n % 10) + 1]>>

\* str(x) for an Optional[int]
StrOptInt(x) == IF x = <<>> THEN <<"N","o","n","e">> ELSE StrInt(x[1])

----------------------------------------------------------------------------
(* hero_product_matches *)

S_products == <<"/","p","r","o","d","u","c","t","s","/">>
SegmentStop == {"/", "?", "#"}

\* offsets at which r'/products/([^/?#]+)' matches
HandleMatchOffsets(href) ==
    {i \in 0..Len(href) :
        /\ OccursAt(S_products, href, i)
        /\ i + Len(S_products) + 1 <= Len(href)
        /\ href[i + Len(S_products) + 1] \notin SegmentStop}

\* the greedy group ([^/?#]+) starting at position from (1-based)
RECURSIVE SegmentEnd(_, _)
SegmentEnd(href, from) ==
    IF from + 1 <= Len(href) /\ href[from + 1] \notin SegmentStop
    THEN SegmentEnd(href, from + 1)
    ELSE from

Min(S) == CHOOSE x \in S : \A y \in S : x <= y
Max(S) == CHOOSE x \in S : \A y \in S : x >= y

\* re.search(...): the handle (lowercased), or None when there is no match
ExtractHandle(href) ==
    IF HandleMatchOffsets(href) = {} THEN None
    ELSE LET i == Min(HandleMatchOffsets(href)) + Len(S_products) + 1
         IN  Lower(SubSeq(href, i, SegmentEnd(href, i)))

\* { (p.handle or '').lower(): p for p in products }: a later product overwrites an earlier one
LookupKey(p) == Lower(OrEmpty(p.handle))
FirstWinsLookup(prods) ==
    [h \in {LookupKey(prods[i]) : i \in 1..Len(prods)} |->
        prods[Min({i \in 1..Len(prods) : LookupKey(prods[i]) = h})]]
handles_to_product(prods) ==
    [h \in {LookupKey(prods[i]) : i \in 1..Len(prods)} |->
        prods[Max({i \in 1..Len(prods) : LookupKey(prods[i]) = h})]]

\* the inner loop `for p in products: if p.title and p.title.lower() in text: ... break`
RECURSIVE TitleScan(_, _, _)
TitleScan(prods, text, i) ==
    IF i > Len(prods) THEN <<>>
    ELSE IF Truthy(prods[i].title) /\ Contains(Lower(prods[i].title), text)
         THEN <<prods[i]>>
         ELSE TitleScan(prods, text, i + 1)

\* one iteration of `for card in product_cards`
CardMatch(card, prods) ==
    LET href == OrEmpty(card.href)
        text == Lower(OrEmpty(card.text))
        handle == ExtractHandle(href)
        table == handles_to_product(prods)
    IN  IF Truthy(handle) /\ handle \in DOMAIN table
        THEN <<table[handle]>>
        ELSE TitleScan(prods, text, 1)

RECURSIVE MatchLoop(_, _, _)
MatchLoop(cards, prods, i) ==
    IF i > Len(cards) THEN <<>>
    ELSE CardMatch(cards[i], prods) \o MatchLoop(cards, prods, i + 1)

\* key = h.handle or h.title or str(h.id)
IdentityKey(h) ==
    IF Truthy(h.handle) THEN h.handle
    ELSE IF Truthy(h.title) THEN h.title
    ELSE StrOptInt(h.id)

\* the loop `for h in heroes: if key not in seen: ...`
RECURSIVE UniqueLoop(_, _, _)
NoDedupLoop(hs, seen, i) == hs
UniqueLoop(hs, seen, i) ==
    IF i > Len(hs) THEN <<>>
    ELSE IF IdentityKey(hs[i]) \notin seen
         THEN <<hs[i]>> \o UniqueLoop(hs, seen \cup {IdentityKey(hs[i])}, i + 1)
         ELSE UniqueLoop(hs, seen, i + 1)

hero_product_matches(cards, prods) ==
    IF prods = <<>> THEN <<>>
    ELSE UniqueLoop(MatchLoop(cards, prods, 1), {}, 1)

----------------------------------------------------------------------------
(* Inputs of the hero matcher *)

MaxCards == 2
MaxProducts == 2

SeqUpTo(S, n) == UNION {[1..k -> S] : k \in 0..n}

Product(id, title, handle) ==
    [id |-> id, title |-> title, handle |-> handle, variants |-> None, images |-> <<>>]

ProductPool ==
    { Product(<<1>>, <<"a","b">>, <<"a","b">>),
      Product(<<2>>, <<"B">>, <<"A","b">>),
      Product(<<3>>, <<>>, None),
      Product(<<>>, <<"b">>, None),
      Product(<<1>>, None, <<"b">>),
      Product(<<>>, None, None) }

Card(href, text) == [href |-> href, text |-> text]

CardPool ==
    { Card(S_products \o <<"A","B">>, <<"x">>),
      Card(S_products \o <<"z","?","v">>, <<"A","b">>),
      Card(<<"b">>, <<"x","B">>),
      Card(S_products \o <<"/">>, <<>>),
      Card(<<"/","c">> \o S_products \o <<"b","#","f">>, <<"z">>) }

HeroIdle ==
    /\ product_cards = <<>>
    /\ products = <<>>
    /\ heroes = <<>>
    /\ hpc = "idle"

HeroInit ==
    /\ product_cards \in SeqUpTo(CardPool, MaxCards)
    /\ products \in SeqUpTo(ProductPool, MaxProducts)
    /\ heroes = <<>>
    /\ hpc = "call"

\* hero_product_matches(product_cards, products, base_url)
HeroCall ==
    /\ hpc = "call"
    /\ heroes' = hero_product_matches(product_cards, products)
    /\ hpc' = "return"
    /\ UNCHANGED <<product_cards, products>>

----------------------------------------------------------------------------
(* The reference the hero matcher is compared with *)

\* positions of the match sequence that are the first with their identity key
FirstOccurrences(M) ==
    {i \in 1..Len(M) : \A j \in 1..(i - 1) : IdentityKey(M[j]) # IdentityKey(M[i])}

\* the elements of M at the positions of K, in increasing position
RECURSIVE Pick(_, _)
Pick(M, K) ==
    IF K = {} THEN <<>>
    ELSE <<M[Min(K)]>> \o Pick(M, K \ {Min(K)})

\* catalog positions whose lowercased handle is the extracted handle h
HandleHits(h, prods) ==
    {i \in 1..Len(prods) : h # None /\ Lower(OrEmpty(prods[i].handle)) = h}

\* catalog positions whose lowercased title occurs in the lowercased display text;
\* emptyTitle says whether a product whose title is the empty string counts
TitleHits(card, prods, emptyTitle) ==
    {i \in 1..Len(prods) :
        /\ prods[i].title # None
        /\ emptyTitle \/ prods[i].title # <<>>
        /\ Contains(Lower(prods[i].title), Lower(OrEmpty(card.text)))}

RefMatch(card, prods, emptyTitle) ==
    LET hh == HandleHits(ExtractHandle(OrEmpty(card.href)), prods)
        th == TitleHits(card, prods, emptyTitle)
    IN  IF hh # {} THEN <<prods[Max(hh)]>>
        ELSE IF th # {} THEN <<prods[Min(th)]>>
        ELSE <<>>

RECURSIVE RefMatches(_, _, _)
RefMatches(cards, prods, emptyTitle) ==
    IF cards = <<>> THEN <<>>
    ELSE RefMatch(Head(cards), prods, emptyTitle) \o RefMatches(Tail(cards), prods, emptyTitle)

RefHeroes(cards, prods, emptyTitle) ==
    LET M == RefMatches(cards, prods, emptyTitle)
    IN  Pick(M, FirstOccurrences(M))

CatalogKeys == {IdentityKey(products[i]) : i \in 1..Len(products)}

\* C1: the heroes returned are products of the catalog (by identity key), no two
\* of them share an identity key, and an empty catalog gives no heroes.
C1_HeroSubsetNoDuplicates ==
    hpc = "return" =>
        /\ \A i \in 1..Len(heroes) : IdentityKey(heroes[i]) \in CatalogKeys
        /\ \A i \in 1..Len(heroes) : \E j \in 1..Len(products) : heroes[i] = products[j]
        /\ \A i, j \in 1..Len(heroes) :
              IdentityKey(heroes[i]) = IdentityKey(heroes[j]) => i = j
        /\ products = <<>> => heroes = <<>>

\* a return where the match list held a duplicate identity key that was removed
C1_Witness ==
    /\ hpc = "return"
    /\ Len(heroes) >= 1
    /\ Len(MatchLoop(product_cards, products, 1)) > Len(heroes)

\* C9 as stated: the title strategy accepts the first product whose lowercased
\* title is a substring of the lowercased display text (the empty title included).
C9_AsStated ==
    (hpc = "return" /\ products # <<>>) =>
        heroes = RefHeroes(product_cards, products, TRUE)

\* C9 (amended): for a non-empty catalog the result is the reference in which the
\* title strategy accepts the first product with a non-empty title whose lowercased
\* title is a substring of the lowercased display text.
C9_HeroReference ==
    (hpc = "return" /\ products # <<>>) =>
        heroes = RefHeroes(product_cards, products, FALSE)

\* a return with one hero found through the handle lookup and one through the
\* title scan, for a catalog in which two products share a lowercased handle
C9_Witness ==
    /\ hpc = "return"
    /\ Len(heroes) = 2
    /\ Len(products) = 2
    /\ LookupKey(products[1]) = LookupKey(products[2])
    /\ \E i \in 1..Len(product_cards) :
          Truthy(ExtractHandle(OrEmpty(product_cards[i].href)))
          /\ ExtractHandle(OrEmpty(product_cards[i].href)) \in DOMAIN handles_to_product(products)
    /\ \E i \in 1..Len(product_cards) :
          ExtractHandle(OrEmpty(product_cards[i].href)) \notin DOMAIN handles_to_product(products)
          /\ TitleScan(products, Lower(OrEmpty(product_cards[i].text)), 1) # <<>>

----------------------------------------------------------------------------
(* URLs: urllib.parse.urljoin as requests.compat.urljoin, for references     *)
(* without query, fragment or dot segments                                   *)

S_http == <<"h","t","t","p">>
S_https == <<"h","t","t","p","s">>
S_ftp == <<"f","t","p">>
UsesRelative == {<<>>, S_http, S_https, S_ftp}
SchemeChars == Range(LowerAlpha) \cup Range(UpperAlpha) \cup Range(Digits) \cup {"+", "-", "."}
Letters == Range(LowerAlpha) \cup Range(UpperAlpha)

\* positions of u at which a scheme ends: the first ":" when all before it are scheme characters
SchemeEnd(u) ==
    {i \in 2..Len(u) :
        /\ u[i] = ":"
        /\ u[1] \in Letters
        /\ \A j \in 1..(i - 1) : u[j] \in SchemeChars}

\* urlsplit(u).scheme
SchemeOf(u) == IF SchemeEnd(u) = {} THEN <<>> ELSE Lower(SubSeq(u, 1, Min(SchemeEnd(u)) - 1))

\* what follows "scheme:"
AfterScheme(u) == IF SchemeEnd(u) = {} THEN u ELSE SubSeq(u, Min(SchemeEnd(u)) + 1, Len(u))

HasNetloc(rest) == StartsWith(rest, <<"/","/">>)

\* the end (1-based, inclusive) of the netloc of rest = "//netloc/path"
NetlocEnd(rest) ==
    LET slashes == {i \in 3..Len(rest) : rest[i] = "/"}
    IN  IF slashes = {} THEN Len(rest) ELSE Min(slashes) - 1

NetlocOf(rest) == IF HasNetloc(rest) THEN SubSeq(rest, 3, NetlocEnd(rest)) ELSE <<>>
PathOf(rest) == IF HasNetloc(rest) THEN SubSeq(rest, NetlocEnd(rest) + 1, Len(rest)) ELSE rest

\* urlunsplit((scheme, netloc, path, '', ''))
Unsplit(scheme, netloc, path) ==
    LET p == IF path # <<>> /\ path[1] # "/" THEN <<"/">> \o path ELSE path
    IN  scheme \o <<":","/","/">> \o netloc \o p

\* the base path up to and including its last "/" ("/" when it has none)
BaseDir(bpath) ==
    LET slashes == {i \in 1..Len(bpath) : bpath[i] = "/"}
    IN  IF slashes = {} THEN <<"/">> ELSE SubSeq(bpath, 1, Max(slashes))

JoinDropsBase(base, url) == url
urljoin(base, url) ==
    IF base = <<>> THEN url
    ELSE IF url = <<>> THEN base
    ELSE LET bscheme == SchemeOf(base)
             scheme == IF SchemeOf(url) = <<>> THEN bscheme ELSE SchemeOf(url)
             brest == AfterScheme(base)
             rest == AfterScheme(url)
             path == PathOf(rest)
         IN  IF scheme # bscheme \/ scheme \notin UsesRelative THEN url
             ELSE IF NetlocOf(rest) # <<>> THEN Unsplit(scheme, NetlocOf(rest), path)
             ELSE IF path = <<>> THEN Unsplit(scheme, NetlocOf(brest), PathOf(brest))
             ELSE IF path[1] = "/" THEN Unsplit(scheme, NetlocOf(brest), path)
             ELSE Unsplit(scheme, NetlocOf(brest), BaseDir(PathOf(brest)) \o path)

----------------------------------------------------------------------------
(* find_policy_links *)

S_privacy == <<"/","p","o","l","i","c","i","e","s","/","p","r","i","v","a","c","y","-","p","o","l","i","c","y">>
S_refund == <<"/","p","o","l","i","c","i","e","s","/","r","e","f","u","n","d","-","p","o","l","i","c","y">>
S_returns == <<"/","p","o","l","i","c","i","e","s","/","r","e","t","u","r","n","s">>
S_return == <<"/","p","o","l","i","c","i","e","s","/","r","e","t","u","r","n","-","p","o","l","i","c","y">>
S_terms == <<"/","p","o","l","i","c","i","e","s","/","t","e","r","m","s","-","o","f","-","s","e","r","v","i","c","e">>

\* the category names in the order of the patterns dict
PolicyNames == <<"privacy_policy", "refund_policy", "terms_of_service">>

patterns ==
    [privacy_policy |-> <<S_privacy, S_privacy \o <<"/">>>>,
     refund_policy |-> <<S_refund, S_refund \o <<"/">>, S_returns, S_return>>,
     terms_of_service |-> <<S_terms, S_terms \o <<"/">>>>]

\* `if not v: continue` passed and some `pat in v`
LinkMatches(v, pats) == Truthy(v) /\ \E k \in 1..Len(pats) : Contains(pats[k], v)

\* the loop `for k, v in html_links.items()`: cur is policies[name] so far
RECURSIVE LinkScan(_, _, _, _, _)
LinkScan(base, links, pats, i, cur) ==
    IF i > Len(links) THEN cur
    ELSE LinkScan(base, links, pats, i + 1,
                  IF LinkMatches(links[i].href, pats) THEN urljoin(base, links[i].href) ELSE cur)

\* safe_get(url) is a response exactly when the URL answers 200
safe_get(url, reach) == url \in reach

\* the loop `for pat in pats: candidate = base + pat; r = safe_get(candidate) ...`
RECURSIVE ProbeLoop(_, _, _, _)
ProbeAll(base, pats, i, reach) ==
    [value |-> IF \E k \in 1..Len(pats) : safe_get(base \o pats[k], reach)
               THEN base \o pats[Max({k \in 1..Len(pats) : safe_get(base \o pats[k], reach)})]
               ELSE None,
     probes |-> [k \in 1..Len(pats) |-> base \o pats[k]]]
ProbeLoop(base, pats, i, reach) ==
    IF i > Len(pats) THEN [value |-> None, probes |-> <<>>]
    ELSE LET candidate == base \o pats[i]
         IN  IF safe_get(candidate, reach)
             THEN [value |-> candidate, probes |-> <<candidate>>]
             ELSE LET rest == ProbeLoop(base, pats, i + 1, reach)
                  IN  [value |-> rest.value, probes |-> <<candidate>> \o rest.probes]

\* one iteration of `for name, pats in patterns.items()`
ResolveCategory(base, links, pats, reach) ==
    LET found == LinkScan(base, links, pats, 1, None)
    IN  IF ~Truthy(found) THEN ProbeLoop(base, pats, 1, reach)
        ELSE [value |-> found, probes |-> <<>>]

\* find_policy_links(base_url, html_links): the dictionary returned and, per
\* category, the URLs passed to safe_get in call order
find_policy_links(burl, links, reach) ==
    LET base == RStripSlash(burl)
        res == [n \in Range(PolicyNames) |-> ResolveCategory(base, links, patterns[n], reach)]
    IN  [policies |-> [n \in Range(PolicyNames) |-> res[n].value],
         probes |-> [n \in Range(PolicyNames) |-> res[n].probes]]

----------------------------------------------------------------------------
(* Inputs of the policy resolver *)

MaxLinks == 2

S_site == <<"h","t","t","p","s",":","/","/","a",".","c">>
S_other == <<"h","t","t","p","s",":","/","/","o",".","c">>

\* website URLs that a fetch has answered: absolute http(s) URLs
BaseUrlPool ==
    { S_site,
      S_site \o <<"/">>,
      S_site \o <<"/","s","/">>,
      <<"h","t","t","p",":","/","/","a",".","c","/","s">> }

HrefPool ==
    { S_privacy,
      <<"x">> \o S_returns,
      S_refund,
      S_other \o S_terms,
      <<"m",":">> \o S_privacy,
      <<>>,
      <<"/","a">> }

LinkTextPool == {<<"P">>, <<"R">>, <<"T">>}

Link(text, href) == [text |-> text, href |-> href]
LinkPool == {Link(t, h) : t \in LinkTextPool, h \in HrefPool}

\* link tables: the items of a dict, so no two entries share their text
LinkTables(n) ==
    {ls \in SeqUpTo(LinkPool, n) : \A i, j \in 1..Len(ls) : ls[i].text = ls[j].text => i = j}

ProbePathPool == {S_privacy \o <<"/">>, S_returns, S_return, S_terms}

\* the sets of URLs that answer 200 to a probe
ReachPool ==
    {{RStripSlash(b) \o q : b \in BaseUrlPool, q \in S} : S \in SUBSET ProbePathPool}

NoPolicies == [n \in Range(PolicyNames) |-> None]
NoProbes == [n \in Range(PolicyNames) |-> <<>>]

PolicyIdle ==
    /\ base_url = <<>>
    /\ html_links = <<>>
    /\ reachable = {}
    /\ policies = NoPolicies
    /\ probed = NoProbes
    /\ ppc = "idle"

PolicyInit ==
    /\ base_url \in BaseUrlPool
    /\ html_links \in LinkTables(MaxLinks)
    /\ reachable \in ReachPool
    /\ policies = NoPolicies
    /\ probed = NoProbes
    /\ ppc = "call"

\* find_policy_links(base_url, html_links)
PolicyCall ==
    /\ ppc = "call"
    /\ LET res == find_policy_links(base_url, html_links, reachable)
       IN  /\ policies' = res.policies
           /\ probed' = res.probes
    /\ ppc' = "return"
    /\ UNCHANGED <<base_url, html_links, reachable>>

\* an absolute URL in the sense of RFC 3986: a reference that has a scheme
IsAbsoluteUrl(u) == SchemeOf(u) # <<>>

\* the hrefs of the link table that contain a pattern of category n
MatchingHrefs(n) ==
    {html_links[i].href : i \in {j \in 1..Len(html_links) :
        \E k \in 1..Len(patterns[n]) : Contains(patterns[n][k], html_links[j].href)}}

\* the probe candidates of category n, in declared order
Candidates(n) == [k \in 1..Len(patterns[n]) |-> RStripSlash(base_url) \o patterns[n][k]]

\* C5: the dictionary returned has exactly the three category keys and every
\* value is None or an absolute URL.
C5_ThreeKeysAbsoluteOrNone ==
    ppc = "return" =>
        /\ DOMAIN policies = {"privacy_policy", "refund_policy", "terms_of_service"}
        /\ \A n \in DOMAIN policies : policies[n] = None \/ IsAbsoluteUrl(policies[n])

\* a return with a category resolved from a path-relative href, one resolved by a
\* probe and one left absent
C5_Witness ==
    /\ ppc = "return"
    /\ policies["privacy_policy"] = None
    /\ policies["refund_policy"] # None
    /\ \E h \in MatchingHrefs("refund_policy") : h[1] # "/" /\ SchemeOf(h) = <<>>
    /\ policies["terms_of_service"] # None
    /\ probed["terms_of_service"] # <<>>

\* C6 as stated: a category with a matching href resolves to the join of the
\* base URL and a matching href and issues no probe; probes only without a match.
C6_AsStated ==
    ppc = "return" =>
        \A n \in Range(PolicyNames) :
            /\ MatchingHrefs(n) # {} =>
                  /\ policies[n] \in {urljoin(base_url, h) : h \in MatchingHrefs(n)}
                  /\ probed[n] = <<>>
            /\ probed[n] # <<>> => MatchingHrefs(n) = {}

\* the part of C6 about probes alone: no probe for a category an href matched
C6_NoProbeWhenMatched ==
    ppc = "return" =>
        \A n \in Range(PolicyNames) : probed[n] # <<>> => MatchingHrefs(n) = {}

\* C8: a category no href matched probes its candidates base + path in declared
\* order, each at most once, stops at the first success and takes it as its
\* value; when every probe fails it stays None and the call still returns.
C8_ProbeInOrderFirstSuccess ==
    ppc = "return" =>
        \A n \in Range(PolicyNames) :
            MatchingHrefs(n) = {} =>
                LET cand == Candidates(n)
                    ok == {k \in 1..Len(cand) : cand[k] \in reachable}
                IN  /\ Len(probed[n]) <= Len(cand)
                    /\ probed[n] = SubSeq(cand, 1, Len(probed[n]))
                    /\ \A i, j \in 1..Len(probed[n]) : probed[n][i] = probed[n][j] => i = j
                    /\ ok # {} => /\ Len(probed[n]) = Min(ok)
                                  /\ policies[n] = cand[Min(ok)]
                    /\ ok = {} => /\ probed[n] = cand
                                  /\ policies[n] = None

\* a return where one category was resolved by a probe that followed a failed one
\* while a later candidate was reachable too, and another category failed every probe
C8_Witness ==
    /\ ppc = "return"
    /\ MatchingHrefs("refund_policy") = {}
    /\ Len(probed["refund_policy"]) = 3
    /\ policies["refund_policy"] = probed["refund_policy"][3]
    /\ Candidates("refund_policy")[4] \in reachable
    /\ MatchingHrefs("terms_of_service") = {}
    /\ Len(probed["terms_of_service"]) = 2
    /\ policies["terms_of_service"] = None

----------------------------------------------------------------------------
(* try_fetch_faqs, on a parsed document: a sequence of elements, each with a  *)
(* tag, a class list, its own text and its child elements                     *)

Element(tag, class, text, children) ==
    [tag |-> tag, class |-> class, text |-> text, children |-> children]

\* the descendants of a sequence of sibling elements, in document order
RECURSIVE Flatten(_)
Flatten(nodes) ==
    IF nodes = <<>> THEN <<>>
    ELSE <<Head(nodes)>> \o Flatten(Head(nodes).children) \o Flatten(Tail(nodes))


\* tag.get_text(strip=True): the stripped, non-empty strings of the subtree, joined
RECURSIVE GetText(_)
RECURSIVE GetTextAll(_)
GetText(el) == Strip(el.text) \o GetTextAll(el.children)
GetTextAll(nodes) ==
    IF nodes = <<>> THEN <<>> ELSE GetText(Head(nodes)) \o GetTextAll(Tail(nodes))

S_question == <<"q","u","e","s","t","i","o","n">>
S_answer == <<"a","n","s","w","e","r">>
\* the character U+0008 that the escape "\b" denotes in a Python string literal
BS == "BS"

\* re.compile('question|q\b', re.I).search(token)
QuestionRegex(token) ==
    \/ Contains(S_question, Lower(token))
    \/ Contains(<<"q", BS>>, Lower(token))

\* re.compile('answer|a\b', re.I).search(token)
AnswerRegex(token) ==
    \/ Contains(S_answer, Lower(token))
    \/ Contains(<<"a", BS>>, Lower(token))

\* li.find(class_=re.compile('question|q\b', re.I)): the descendants one of whose
\* classes the regex matches, in document order (find takes the first)
FindQuestion(li) ==
    LET sub == Flatten(li.children)
    IN  Pick(sub, {i \in 1..Len(sub) : \E k \in 1..Len(sub[i].class) : QuestionRegex(sub[i].class[k])})

\* li.find(class_=re.compile('answer|a\b', re.I))
FindAnswer(li) ==
    LET sub == Flatten(li.children)
    IN  Pick(sub, {i \in 1..Len(sub) : \E k \in 1..Len(sub[i].class) : AnswerRegex(sub[i].class[k])})

\* details.find('summary')
FindSummary(details) ==
    LET sub == Flatten(details.children)
    IN  Pick(sub, {i \in 1..Len(sub) : sub[i].tag = "summary"})

FaqContainerClasses == {<<"f","a","q">>, <<"f","a","q","s">>, <<"a","c","c","o","r","d","i","o","n">>, S_question}

\* soup.select('.faq, .faqs, .accordion, .question')
SelectContainers(doc) ==
    LET all == Flatten(doc)
    IN  Pick(all, {i \in 1..Len(all) : \E k \in 1..Len(all[i].class) : all[i].class[k] \in FaqContainerClasses})

Faq(q, a) == [q |-> q, a |-> a]

\* the loop `for details in soup.find_all('details')`
RECURSIVE DetailsLoop(_)
DetailsLoop(ds) ==
    IF ds = <<>> THEN <<>>
    ELSE LET summary == FindSummary(Head(ds))
         IN  (IF summary # <<>>
              THEN LET q == GetText(summary[1])
                   IN  <<Faq(q, Strip(Replace(GetText(Head(ds)), q, <<>>)))>>
              ELSE <<>>) \o DetailsLoop(Tail(ds))

\* the loop `for li in soup.select(...)`
RECURSIVE ContainerLoop(_)
ContainerLoop(lis) ==
    IF lis = <<>> THEN <<>>
    ELSE LET q_tag == FindQuestion(Head(lis))
             a_tag == FindAnswer(Head(lis))
         IN  (IF q_tag # <<>> /\ a_tag # <<>>
              THEN <<Faq(GetText(q_tag[1]), GetText(a_tag[1]))>>
              ELSE <<>>) \o ContainerLoop(Tail(lis))

\* soup.find_all('details')
FindAllDetails(doc) ==
    LET all == Flatten(doc)
    IN  Pick(all, {i \in 1..Len(all) : all[i].tag = "details"})

try_fetch_faqs(doc) ==
    LET primary == DetailsLoop(FindAllDetails(doc))
    IN  IF primary = <<>> THEN ContainerLoop(SelectContainers(doc)) ELSE primary

----------------------------------------------------------------------------
(* Inputs of the FAQ extractor *)

MaxElements == 2
MaxChildren == 2

LeafPool ==
    { Element("span", <<<<"Q","u","e","s","t","i","o","n">>>>, <<"Q","1">>, <<>>),
      Element("span", <<<<"q">>>>, <<"Q","2">>, <<>>),
      Element("span", <<<<"a","n","s","w","e","r","s">>>>, <<" ","A","1">>, <<>>),
      Element("span", <<<<"a">>>>, <<"A","2">>, <<>>) }

ElementPool ==
    {Element("div", <<c>>, <<>>, ch) :
        c \in {<<"f","a","q">>, S_question, <<"b","o","x">>}, ch \in SeqUpTo(LeafPool, MaxChildren)}
    \cup
    { Element("details", <<>>, <<"Q","?"," ","n","o">>, <<>>),
      Element("details", <<>>, <<>>,
              <<Element("summary", <<>>, <<"Q","?">>, <<>>), Element("p", <<>>, <<" ","y","e","s"," ">>, <<>>)>>) }

FaqInit ==
    /\ soup \in SeqUpTo(ElementPool, MaxElements)
    /\ faqs = <<>>
    /\ fpc = "call"

\* try_fetch_faqs(soup)
FaqCall ==
    /\ fpc = "call"
    /\ faqs' = try_fetch_faqs(soup)
    /\ fpc' = "return"
    /\ UNCHANGED soup

\* a class token that reads "question", or the letter q as a whole word
SaysQuestion(token) ==
    \/ Contains(S_question, Lower(token))
    \/ \E i \in 1..Len(token) :
          /\ Lower(token)[i] = "q"
          /\ i = 1 \/ token[i - 1] \notin Letters \cup Range(Digits) \cup {"_"}
          /\ i = Len(token) \/ token[i + 1] \notin Letters \cup Range(Digits) \cup {"_"}

\* a class token that reads "answer", or the letter a as a whole word
SaysAnswer(token) ==
    \/ Contains(S_answer, Lower(token))
    \/ \E i \in 1..Len(token) :
          /\ Lower(token)[i] = "a"
          /\ i = 1 \/ token[i - 1] \notin Letters \cup Range(Digits) \cup {"_"}
          /\ i = Len(token) \/ token[i + 1] \notin Letters \cup Range(Digits) \cup {"_"}

\* the container holds both a question and an answer sub-element
Paired(li) ==
    LET sub == Flatten(li.children)
    IN  /\ \E i \in 1..Len(sub) : \E k \in 1..Len(sub[i].class) : SaysQuestion(sub[i].class[k])
        /\ \E i \in 1..Len(sub) : \E k \in 1..Len(sub[i].class) : SaysAnswer(sub[i].class[k])

PairedContainers(doc) ==
    LET cs == SelectContainers(doc)
    IN  Pick(cs, {i \in 1..Len(cs) : Paired(cs[i])})

\* C10: the fallback runs exactly when the details scan gave nothing, and then
\* emits one pair per container that holds a sub-element whose class says
\* "question" (or q as a whole word) and one whose class says "answer" (or a).
C10_AsStated ==
    fpc = "return" =>
        LET primary == DetailsLoop(FindAllDetails(soup))
        IN  /\ primary # <<>> => faqs = primary
            /\ primary = <<>> => Len(faqs) = Len(PairedContainers(soup))

----------------------------------------------------------------------------
(* fetch_products_json: the body of the feed response is a JSON value, a      *)
(* record tagged with its JSON type, or text that is not JSON                 *)

JNull == [t |-> "null"]
JInt(n) == [t |-> "int", n |-> n]
JStr(str) == [t |-> "str", s |-> str]
JList(items) == [t |-> "list", items |-> items]
JDict(id, title, handle, variants, images) ==
    [t |-> "dict", id |-> id, title |-> title, handle |-> handle, variants |-> variants, images |-> images]
JObject(prods, items) == [t |-> "object", products |-> prods, items |-> items]
NotJson == [t |-> "text"]
\* safe_get returned None
NoResponse == [t |-> "none"]
\* nothing returned or raised yet
Pending == [status |-> "pending"]

Ok(v) == [status |-> "ok", value |-> v]
Raise(e) == [status |-> "raise", exc |-> e]

\* bool(v) for a JSON value; an absent key reads as None
JTruthy(v) ==
    CASE v.t = "null" -> FALSE
      [] v.t = "int" -> v.n # 0
      [] v.t = "str" -> v.s # <<>>
      [] v.t = "list" -> v.items # <<>>
      [] OTHER -> TRUE

\* pydantic's validation of Optional[int] and Optional[str]
ValidOptInt(v) == v.t \in {"null", "int"}
ValidOptStr(v) == v.t \in {"null", "str"}
ToOptInt(v) == IF v.t = "int" THEN <<v.n>> ELSE <<>>
ToOptStr(v) == IF v.t = "str" THEN v.s ELSE None

\* [img.get("src") for img in p.get("images", [])] if p.get("images") else []
ImageSources(images) ==
    IF ~JTruthy(images) THEN Ok(<<>>)
    ELSE IF images.t # "list" THEN Raise("TypeError")
    ELSE IF \E k \in 1..Len(images.items) : images.items[k].t # "dict" THEN Raise("AttributeError")
    ELSE Ok([k \in 1..Len(images.items) |-> images.items[k].src])

\* Product(id=p.get("id"), ...) for one entry of the array
MapEntry(p) ==
    IF p.t # "dict" THEN Raise("AttributeError")
    ELSE LET srcs == ImageSources(p.images)
         IN  IF srcs.status = "raise" THEN srcs
             ELSE IF \/ ~ValidOptInt(p.id) \/ ~ValidOptStr(p.title) \/ ~ValidOptStr(p.handle)
                     \/ p.variants.t \notin {"null", "list"}
                     \/ \E k \in 1..Len(srcs.value) : srcs.value[k].t # "str"
                  THEN Raise("ValidationError")
                  ELSE Ok([id |-> ToOptInt(p.id), title |-> ToOptStr(p.title),
                           handle |-> ToOptStr(p.handle),
                           variants |-> IF p.variants.t = "null" THEN None ELSE <<>>,
                           images |-> [k \in 1..Len(srcs.value) |-> srcs.value[k].s]])

\* the loop `for p in raw_products` inside the try: a ValueError (pydantic's
\* ValidationError is one) ends it with what was appended so far, any other
\* exception leaves the function
RECURSIVE EntryLoop(_, _, _)
EntryLoop(raw, i, acc) ==
    IF i > Len(raw) THEN Ok(acc)
    ELSE LET e == MapEntry(raw[i])
         IN  IF e.status = "ok" THEN EntryLoop(raw, i + 1, Append(acc, e.value))
             ELSE IF e.exc = "ValidationError" THEN Ok(acc)
             ELSE e

\* lines 92-109 on the response r of safe_get(candidate)
ParseFeed(resp) ==
    IF resp.t = "none" THEN Ok(<<>>)
    ELSE IF resp.t = "text" THEN Ok(<<>>)
    ELSE IF resp.t # "object" THEN Raise("AttributeError")
    ELSE LET raw_products == IF JTruthy(resp.products) THEN resp.products
                             ELSE IF JTruthy(resp.items) THEN resp.items
                             ELSE JList(<<>>)
         IN  IF raw_products.t # "list" THEN Raise("TypeError")
             ELSE EntryLoop(raw_products.items, 1, <<>>)

S_products_json == <<"/","p","r","o","d","u","c","t","s",".","j","s","o","n">>

\* candidate = base_url.rstrip("/") + "/products.json"
FeedUrl(burl) == RStripSlash(burl) \o S_products_json

----------------------------------------------------------------------------
(* Inputs of the feed normalizer *)

MaxEntries == 2

EntryPool ==
    { JDict(JInt(1), JStr(<<"a","b">>), JStr(<<"a","b">>), JNull, JNull),
      JDict(JInt(2), JStr(<<"B">>), JNull, JList(<<>>),
            JList(<<[t |-> "dict", src |-> JStr(<<"u">>)]>>)),
      JDict(JStr(<<"x">>), JNull, JNull, JNull, JNull),
      JDict(JInt(3), JNull, JNull, JNull, JList(<<JInt(7)>>)),
      JInt(5) }

ArrayPool == {JNull, JInt(5)} \cup {JList(es) : es \in SeqUpTo(EntryPool, MaxEntries)}

FeedPool ==
    {NoResponse, NotJson, JList(<<>>)}
    \cup {JObject(ps, is) : ps \in ArrayPool, is \in {JNull, JInt(5), JList(<<JInt(5)>>)}}

FeedInit ==
    /\ feed \in FeedPool
    /\ feed_result = Pending
    /\ jpc = "call"

\* fetch_products_json(base_url), given the response to the feed request
FeedCall ==
    /\ jpc = "call"
    /\ feed_result' = ParseFeed(feed)
    /\ jpc' = "return"
    /\ UNCHANGED feed

\* the body is a JSON object whose product array maps entry by entry to Products
FeedParses(resp) ==
    /\ resp.t = "object"
    /\ LET raw == IF JTruthy(resp.products) THEN resp.products
                  ELSE IF JTruthy(resp.items) THEN resp.items ELSE JList(<<>>)
       IN  /\ raw.t = "list"
           /\ \A k \in 1..Len(raw.items) : MapEntry(raw.items[k]).status = "ok"

\* C3: fetch_products_json never raises, and returns [] whenever the feed is
\* unreachable, not JSON, not an object with a product array, or holds an entry
\* that does not map to a Product.
C3_AsStated ==
    jpc = "return" =>
        /\ feed_result.status = "ok"
        /\ ~FeedParses(feed) => feed_result.value = <<>>

----------------------------------------------------------------------------
(* extract_links_and_text, on the results of the BeautifulSoup and regex      *)
(* queries over the page: a page is the record of what those queries return   *)

Page(title, anchors, card_anchors, handle_tags, emails, phones, about, description, dom) ==
    [t |-> "page", title |-> title, anchors |-> anchors, card_anchors |-> card_anchors,
     handle_tags |-> handle_tags, emails |-> emails, phones |-> phones, about |-> about,
     description |-> description, dom |-> dom]

\* the items of {key(x): value(x) for x in xs}: a key keeps the position of its
\* first occurrence and the value of its last
DictItems(pairs) ==
    LET first == {i \in 1..Len(pairs) : \A j \in 1..(i - 1) : pairs[j].text # pairs[i].text}
        Last(i) == Max({j \in 1..Len(pairs) : pairs[j].text = pairs[i].text})
        items == [i \in 1..Len(pairs) |-> Link(pairs[i].text, pairs[Last(i)].href)]
    IN  Pick(items, first)

StripTexts(pairs) == [i \in 1..Len(pairs) |-> [text |-> Strip(pairs[i].text), href |-> pairs[i].href]]

\* ' '.join(texts)
RECURSIVE JoinSpace(_)
JoinSpace(texts) ==
    IF texts = <<>> THEN <<>>
    ELSE IF Len(texts) = 1 THEN texts[1]
    ELSE texts[1] \o <<" ">> \o JoinSpace(Tail(texts))

S_instagram == <<"i","n","s","t","a","g","r","a","m",".","c","o","m">>
S_facebook == <<"f","a","c","e","b","o","o","k",".","c","o","m">>
S_twitter == <<"t","w","i","t","t","e","r",".","c","o","m">>
S_x == <<"x",".","c","o","m">>
S_tiktok == <<"t","i","k","t","o","k",".","c","o","m">>
S_youtube == <<"y","o","u","t","u","b","e",".","c","o","m">>

\* the branch of the if/elif chain that an href takes
Platform(href) ==
    IF Contains(S_instagram, href) THEN "instagram"
    ELSE IF Contains(S_facebook, href) THEN "facebook"
    ELSE IF Contains(S_twitter, href) \/ Contains(S_x, href) THEN "twitter"
    ELSE IF Contains(S_tiktok, href) THEN "tiktok"
    ELSE IF Contains(S_youtube, href) THEN "youtube"
    ELSE "none"

\* the social dict: per platform the href of the last anchor taking its branch
Social(anchors) ==
    [pf \in {Platform(anchors[i].href) : i \in 1..Len(anchors)} \ {"none"} |->
        anchors[Max({i \in 1..Len(anchors) : Platform(anchors[i].href) = pf})].href]

\* the orders in which list(set(xs)) can come out
Orderings(S) == {f \in [1..Cardinality(S) -> S] : \A i, j \in 1..Cardinality(S) : f[i] = f[j] => i = j}

\* extract_links_and_text(html), for one iteration order of each of the two sets
extract_links_and_text(page, emails, phones) ==
    [title |-> IF page.title = None THEN None ELSE Strip(page.title),
     links |-> DictItems(StripTexts(page.anchors)),
     product_cards |-> StripTexts(page.card_anchors) \o StripTexts(page.handle_tags),
     emails |-> emails,
     phones |-> phones,
     about_text |-> IF page.about # <<>>
                    THEN JoinSpace([i \in 1..Min({3, Len(page.about)}) |-> Strip(page.about[i])])
                    ELSE IF Truthy(page.description) THEN page.description
                    ELSE None,
     social |-> Social(page.anchors)]

----------------------------------------------------------------------------
(* fetch_insights *)

S_https_prefix == <<"h","t","t","p","s",":","/","/">>
S_www == <<"w","w","w",".">>
S_track == <<"t","r","a","c","k">>
S_contact == <<"c","o","n","t","a","c","t">>
S_blog == <<"b","l","o","g">>
S_blogs == <<"/","b","l","o","g","s">>

\* lines 233-234
Normalize(url) == IF ~StartsWith(url, S_http) THEN S_https_prefix \o url ELSE url

\* line 238
WwwAlt(url) == Replace(url, S_https_prefix, S_https_prefix \o S_www)

\* line 237
RetryEligible(url) == StartsWith(url, S_https_prefix) /\ ~Contains(S_www, url)

\* the three triggers of the important-links loop
Trigger(kind, link) ==
    LET ltext == Lower(OrEmpty(link.text))
        href_l == Lower(link.href)
    IN  CASE kind = "order_tracking" -> Contains(S_track, ltext) \/ Contains(S_track, href_l)
          [] kind = "contact" -> Contains(S_contact, ltext) \/ Contains(S_contact, href_l)
          [] kind = "blog" -> Contains(S_blog, ltext) \/ Contains(S_blogs, href_l)

\* lines 252-263: per category the join of the last link that triggers it
ImportantLinks(wurl, links) ==
    LET Hits(kind) == {i \in 1..Len(links) : Truthy(links[i].href) /\ Trigger(kind, links[i])}
    IN  [kind \in {k \in {"order_tracking", "contact", "blog"} : Hits(k) # {}} |->
            urljoin(wurl, links[Max(Hits(kind))].href)]

\* the URLs that answer 200 in an environment
Up(e) ==
    e.up
    \cup {RStripSlash(u) \o q : u \in e.up, q \in e.probes}
    \cup (IF e.feed.t = "none" THEN {} ELSE {FeedUrl(u) : u \in e.up})

\* the safe_get calls of find_policy_links, in call order
ProbeLog(probes) ==
    probes["privacy_policy"] \o probes["refund_policy"] \o probes["terms_of_service"]

\* lines 247-282
BrandContext(wurl, page, prsd, prods, pol) ==
    LET hero_products == hero_product_matches(prsd.product_cards, prods)
    IN  [website_url |-> wurl,
         store_title |-> prsd.title,
         about_text |-> prsd.about_text,
         products |-> prods,
         hero_products |-> hero_products,
         policies |-> pol,
         faqs |-> try_fetch_faqs(page.dom),
         social_handles |-> prsd.social,
         contact |-> [emails |-> prsd.emails, phones |-> prsd.phones, addresses |-> <<>>],
         important_links |-> ImportantLinks(wurl, prsd.links),
         metadata |-> [found_products_count |-> Len(prods), found_hero_count |-> Len(hero_products)]]

\* the number of times the same request is sent
MaxRuns == 2

HttpError(code) == [status |-> code]
NoParse == [t |-> "none"]

\* the handler leaves with a response, which the run log records
Finish(resp) ==
    /\ response' = resp
    /\ runs' = Append(runs, resp)
    /\ pc' = "done"

\* lines 230-232
Receive ==
    /\ pc = "start"
    /\ IF ~Truthy(payload)
       THEN /\ Finish(HttpError(400))
            /\ UNCHANGED website_url
       ELSE /\ website_url' = Normalize(payload)
            /\ pc' = "fetch"
            /\ UNCHANGED <<response, runs>>
    /\ UNCHANGED <<payload, env, requested, r, parsed, persisted>>

\* line 235
FirstFetch ==
    /\ pc = "fetch"
    /\ requested' = Append(requested, website_url)
    /\ r' = IF safe_get(website_url, Up(env)) THEN env.page ELSE NoResponse
    /\ pc' = "checked"
    /\ UNCHANGED <<payload, env, website_url, parsed, response, persisted, runs>>

\* lines 236-243
Retry ==
    /\ pc = "checked"
    /\ LET retry == r.t = "none" /\ RetryEligible(website_url)
           alt == WwwAlt(website_url)
           r2 == IF retry /\ safe_get(alt, Up(env)) THEN env.page ELSE r
           w2 == IF retry /\ safe_get(alt, Up(env)) THEN alt ELSE website_url
       IN  /\ requested' = IF retry THEN Append(requested, alt) ELSE requested
           /\ r' = r2
           /\ website_url' = w2
           /\ IF r2.t = "none"
              THEN Finish(HttpError(401))
              ELSE /\ pc' = "analyze"
                   /\ UNCHANGED <<response, runs>>
    /\ UNCHANGED <<payload, env, parsed, persisted>>

\* lines 244-245
Analyze ==
    /\ pc = "analyze"
    /\ \E emails \in Orderings(Range(r.emails)), phones \in Orderings(Range(r.phones)) :
          parsed' = extract_links_and_text(r, emails, phones)
    /\ pc' = "assemble"
    /\ UNCHANGED <<payload, env, website_url, requested, r, response, persisted, runs>>

\* lines 246-292
Assemble ==
    /\ pc = "assemble"
    /\ LET feed_url == FeedUrl(website_url)
           body == IF safe_get(feed_url, Up(env)) THEN env.feed ELSE NoResponse
           prods == ParseFeed(body)
           pol == find_policy_links(website_url, parsed.links, Up(env))
           result == BrandContext(website_url, r, parsed, prods.value, pol.policies)
       IN  IF prods.status = "raise"
           THEN /\ requested' = Append(requested, feed_url)
                /\ Finish(HttpError(500))
                /\ UNCHANGED persisted
           ELSE /\ requested' = Append(requested, feed_url) \o ProbeLog(pol.probes)
                /\ persisted' = IF env.db = "ok" /\ website_url \notin Range(persisted)
                                THEN Append(persisted, website_url)
                                ELSE persisted
                /\ Finish([status |-> 200, body |-> result])
    /\ UNCHANGED <<payload, env, website_url, r, parsed>>

\* the same request is sent again to the same storefront
Again ==
    /\ pc = "done"
    /\ Len(runs) < MaxRuns
    /\ website_url' = None
    /\ requested' = <<>>
    /\ r' = NoResponse
    /\ parsed' = NoParse
    /\ response' = HttpError(0)
    /\ pc' = "start"
    /\ UNCHANGED <<payload, env, persisted, runs>>

----------------------------------------------------------------------------
(* Inputs of fetch_insights *)

S_a_c == <<"a",".","c">>
S_email1 == <<"a","@","b",".","c">>
S_email2 == <<"d","@","e",".","f">>
S_phone == <<"+","1"," ","5","5","5"," ","0","1","0","0">>

\* the payload's website_url; None when the key is missing
PayloadPool ==
    { None,
      <<>>,
      S_a_c,
      S_https_prefix \o S_a_c,
      S_https_prefix \o S_www \o S_a_c,
      <<"h","t","t","p",":","/","/","a",".","c","/","s","/">>,
      S_https_prefix \o <<"x">> \o S_www \o <<"c">> }

SitePool ==
    UNION {{Normalize(u), WwwAlt(Normalize(u))} : u \in {v \in PayloadPool : Truthy(v)}}

PagePool ==
    { Page(None, <<>>, <<>>, <<>>, <<>>, <<>>, <<>>, None, <<>>),
      Page(<<" ","A","c","m","e">>,
           << Link(<<"P">>, <<"x">> \o S_returns),
              Link(<<"I","n">>, S_https_prefix \o S_instagram),
              Link(<<"P">>, S_privacy),
              Link(<<"B","l","o","g">>, <<"b">>) >>,
           << Link(<<"x","B">>, S_products \o <<"A","B">>) >>,
           << Link(<<"a","b">>, <<"b">>) >>,
           <<S_email1, S_email2, S_email1>>,
           <<S_phone>>,
           <<>>,
           <<"d">>,
           << Element("div", <<<<"f","a","q">>>>, <<>>,
                      << Element("span", <<S_question>>, <<"Q","1">>, <<>>),
                         Element("span", <<S_answer>>, <<"A","1">>, <<>>) >>) >>),
      Page(<<"T">>, << Link(<<"c">>, <<"/","t","r","a","c","k">>) >>, <<>>, <<>>,
           <<S_email1>>, <<>>, << <<"u","s"," ">>, <<"w","e">> >>, None,
           << Element("details", <<>>, <<>>,
                      << Element("summary", <<>>, <<"Q","?">>, <<>>),
                         Element("p", <<>>, <<"y","e","s">>, <<>>) >>) >>) }

FetchFeedPool ==
    { NoResponse,
      NotJson,
      JList(<<>>),
      JObject(JList(<<JDict(JInt(1), JStr(<<"a","b">>), JStr(<<"a","b">>), JNull, JNull)>>), JNull),
      JObject(JList(<<JDict(JInt(1), JStr(<<"a","b">>), JStr(<<"a","b">>), JNull, JNull),
                      JDict(JStr(<<"x">>), JNull, JNull, JNull, JNull)>>), JNull) }

EnvPool ==
    [up : {S \in SUBSET SitePool : Cardinality(S) <= 1} \cup {SitePool},
     page : PagePool,
     feed : FetchFeedPool,
     probes : {{}, {S_returns}, {S_privacy \o <<"/">>, S_terms}},
     db : {"off", "ok", "down"}]

FetchInit ==
    /\ payload \in PayloadPool
    /\ env \in EnvPool
    /\ website_url = None
    /\ requested = <<>>
    /\ r = NoResponse
    /\ parsed = NoParse
    /\ response = HttpError(0)
    /\ persisted = <<>>
    /\ runs = <<>>
    /\ pc = "start"

----------------------------------------------------------------------------
(* Claims about fetch_insights *)

\* the requested URL after the scheme default of lines 233-234
Url0 == Normalize(payload)

\* the URL uses https and its host has no "www." prefix
HttpsWithoutWwwHost(url) ==
    StartsWith(url, S_https_prefix) /\ ~StartsWith(NetlocOf(AfterScheme(url)), S_www)

\* the URL with "www." inserted after the scheme
WithWww(url) == S_https_prefix \o S_www \o SubSeq(url, Len(S_https_prefix) + 1, Len(url))

\* C2: a request ends in an error only when website_url is missing or no fetch
\* of the page (the original one, the www retry) succeeded; otherwise a
\* BrandContext is returned.
C2_AsStated ==
    pc = "done" =>
        (response.status # 200 <=>
            \/ ~Truthy(payload)
            \/ \A k \in 1..Len(requested) : requested[k] \notin env.up)

\* C4: a failed first fetch of an https URL whose host lacks "www." is followed
\* by exactly one retry with "www." inserted, and a successful retry makes the
\* retried URL the website_url of the later requests and of the result; a
\* successful first fetch is followed by no retry and leaves the URL unchanged.
C4_AsStated ==
    Truthy(payload) =>
        /\ (pc = "analyze" \/ (pc = "done" /\ response.status = 401)) =>
              /\ (Url0 \notin env.up /\ HttpsWithoutWwwHost(Url0)) => requested = <<Url0, WithWww(Url0)>>
              /\ Url0 \in env.up => (requested = <<Url0>> /\ website_url = Url0)
        /\ (pc = "done" /\ response.status = 200 /\ Url0 \notin env.up /\ HttpsWithoutWwwHost(Url0)) =>
              /\ response.body.website_url = WithWww(Url0)
              /\ \A k \in 3..Len(requested) : StartsWith(requested[k], RStripSlash(WithWww(Url0)))

\* C7: two runs on the same page, feed and fetch outcomes return the same
\* response, the order of every list included.
C7_AsStated ==
    \A i, j \in 1..Len(runs) : runs[i] = runs[j]

----------------------------------------------------------------------------
FaqIdle ==
    /\ soup = <<>>
    /\ faqs = <<>>
    /\ fpc = "idle"

FeedIdle ==
    /\ feed = NoResponse
    /\ feed_result = Pending
    /\ jpc = "idle"

FetchIdle ==
    /\ payload = None
    /\ env = [up |-> {}, page |-> NoResponse, feed |-> NoResponse, probes |-> {}, db |-> "off"]
    /\ website_url = None
    /\ requested = <<>>
    /\ r = NoResponse
    /\ parsed = NoParse
    /\ response = HttpError(0)
    /\ persisted = <<>>
    /\ runs = <<>>
    /\ pc = "idle"

HeroNext == HeroCall /\ UNCHANGED <<policyVars, faqVars, feedVars, fetchVars>>
HeroStart == HeroInit /\ PolicyIdle /\ FaqIdle /\ FeedIdle /\ FetchIdle
SpecHero == HeroStart /\ [][HeroNext]_vars

PolicyNext == PolicyCall /\ UNCHANGED <<heroVars, faqVars, feedVars, fetchVars>>
PolicyStart == HeroIdle /\ PolicyInit /\ FaqIdle /\ FeedIdle /\ FetchIdle
SpecPolicy == PolicyStart /\ [][PolicyNext]_vars

FaqNext == FaqCall /\ UNCHANGED <<heroVars, policyVars, feedVars, fetchVars>>
FaqStart == HeroIdle /\ PolicyIdle /\ FaqInit /\ FeedIdle /\ FetchIdle
SpecFaq == FaqStart /\ [][FaqNext]_vars

FeedNext == FeedCall /\ UNCHANGED <<heroVars, policyVars, faqVars, fetchVars>>
FeedStart == HeroIdle /\ PolicyIdle /\ FaqIdle /\ FeedInit /\ FetchIdle
SpecFeed == FeedStart /\ [][FeedNext]_vars

FetchNext ==
    /\ Receive \/ FirstFetch \/ Retry \/ Analyze \/ Assemble \/ Again
    /\ UNCHANGED <<heroVars, policyVars, faqVars, feedVars>>
FetchStart == HeroIdle /\ PolicyIdle /\ FaqIdle /\ FeedIdle /\ FetchInit
SpecFetch == FetchStart /\ [][FetchNext]_vars

====
